---- MODULE Spec2Model ----
(***************************************************************************)
(* Model of MMFN_Agent (ADS/team_code/expert_agent/MMFN/mmfn_expert.py):   *)
(* the leaderboard harness constructs the agent, calls setup once, then    *)
(* run_step repeatedly and finally destroy.  The agent keeps two counters, *)
(* three parallel frame buffers and writes the buffers to LMDB stores.     *)
(*                                                                         *)
(* Units: speeds are integers in tenths of m/s (0.5 m/s is 5).             *)
(* Strings built with format specifiers are modelled as digit sequences.   *)
(***************************************************************************)
EXTENDS Integers, Sequences, FiniteSets, TLC

\* ------------------------------------------------------------------ bounds
\* number of run_step calls the harness makes at most
MaxSteps == 12
\* number of wall-clock seconds that pass at most during the episode
MaxTicks == 1

\* ------------------------------------------------------- program constants
\* run_step: `if spd < 0.5`, in tenths of m/s
SpeedThreshold == 5
\* run_step: `self.num_frames % 5 == 0`
SampleEvery == 5
\* flush_data: f'info_{i:05d}'
IndexWidth == 5
\* flush_data: '%02d' and f'{route_id:02d}'
FieldWidth == 2

None == "None"

\* the actors the simulated world holds at the start of the episode
Vehicles == {"v1"}
Walkers == {"w1"}
Lights == {"l1"}

\* speedometer readings the harness delivers (tenths of m/s)
Speeds == {4, 5}

\* a command that leaves brake=1 out (carla's default is brake=0)
CoastControl == [steer |-> 0, throttle |-> 0, brake |-> 0]
\* carla.VehicleControl(steer=0, throttle=0, brake=1)
BrakeControl == [steer |-> 0, throttle |-> 0, brake |-> 1]
\* the planner's command (BasicAgent.run_step): an emergency stop while it
\* reports a blocking actor, full throttle otherwise
planner_control(obs, light, walker) ==
  IF obs # None \/ light # None \/ walker # None
    THEN [steer |-> 0, throttle |-> 0, brake |-> 1]
    ELSE [steer |-> 0, throttle |-> 1, brake |-> 0]

\* configuration documents the harness may hand to setup
Configs ==
  { [save_data |-> TRUE, debug_print |-> TRUE, max_stop_num |-> 10,
     counter_destory |-> 11, force_destory_actor |-> TRUE,
     weather_change |-> 0, num_per_flush |-> 2, route_id |-> 7],
    [save_data |-> TRUE, debug_print |-> FALSE, max_stop_num |-> 3,
     counter_destory |-> 2, force_destory_actor |-> TRUE,
     weather_change |-> 1, num_per_flush |-> 0, route_id |-> 7],
    [save_data |-> FALSE, debug_print |-> TRUE, max_stop_num |-> 3,
     counter_destory |-> 1, force_destory_actor |-> TRUE,
     weather_change |-> 0, num_per_flush |-> 1, route_id |-> 12],
    [save_data |-> TRUE, debug_print |-> FALSE, max_stop_num |-> 4,
     counter_destory |-> 1, force_destory_actor |-> FALSE,
     weather_change |-> 0, num_per_flush |-> 1, route_id |-> 12] }

NoConfig ==
  [save_data |-> FALSE, debug_print |-> FALSE, max_stop_num |-> 0,
   counter_destory |-> 0, force_destory_actor |-> FALSE,
   weather_change |-> 0, num_per_flush |-> 0, route_id |-> 0]

\* wall clock at the start of the episode (no year: flush_data reads none)
StartTime == [month |-> 11, day |-> 2, hour |-> 9, minute |-> 59, second |-> 59]

VARIABLES
  setup_state,   \* "new" | "ok" | "aborted": how far setup got
  agent,         \* self._agent: None or "BasicAgent"
  num_frames,    \* self.num_frames
  stop_counter,  \* self.stop_counter
  config,        \* self.config (NoConfig while the attribute is absent)
  rgbs, sems, info,  \* the three frame buffers
  alive,         \* actors the simulated world holds
  now,           \* wall clock read by datetime.datetime.now()
  ticks,         \* seconds passed since the start
  stores,        \* LMDB contents: set of [dir, key, val]
  fault,         \* an exception propagated to the harness
  torn,          \* destroy has been called
  calls,         \* number of run_step calls made
  appended,      \* number of samples appended so far
  flushLog,      \* one entry per flush_data call, in order
  last           \* what the last hook call did

vars == <<setup_state, agent, num_frames, stop_counter, config, rgbs, sems,
          info, alive, now, ticks, stores, fault, torn, calls, appended,
          flushLog, last>>

\* ---------------------------------------------------------------- helpers
RECURSIVE Digits(_)
\* decimal digits of n >= 0, most significant first ('%d')
Digits(n) == IF n < 10 THEN <<n>> ELSE Append(Digits(n \div 10), n % 10)

\* '%0wd': zero-padded to width w, longer numbers are not cut
ZeroPad(w, n) ==
  LET d == Digits(n)
  IN IF Len(d) >= w THEN d ELSE [i \in 1..(w - Len(d)) |-> 0] \o d

\* the camera frame delivered at the k-th run_step call: one BGRA pixel
Frame(k) == <<k % 256, (k + 1) % 256, (k + 2) % 256, 255>>

\* rgb[...,:3]
FirstThree(img) == SubSeq(img, 1, 3)
\* sem[...,2,]
ChannelTwo(img) == <<img[3]>>

\* get_speed(self._vehicle): km/h in hundredths, for a speed in tenths of m/s
get_speed(spd) == spd * 36
\* get_speed(...)/3.6, back in tenths of m/s
Velocity(spd) == get_speed(spd) \div 36

\* .astype(np.float32) of [vel, is_junction, weather_change]
AsFloat32(t) == <<t[1], IF t[2] THEN 1 ELSE 0, t[3]>>
\* .astype(np.uint8)
AsUint8(img) == [i \in 1..Len(img) |-> img[i] % 256]

\* ------------------------------------------------------- pieces of run_step
\* mutant: the threshold itself counts as standing still
update_stop_counter_le(sc, spd) == IF spd <= SpeedThreshold THEN sc + 1 ELSE 0

\* `if spd < 0.5: self.stop_counter += 1 / else: self.stop_counter = 0`
update_stop_counter(sc, spd) == IF spd < SpeedThreshold THEN sc + 1 ELSE 0

\* mutant: the stop counter may equal max_stop_num
sample_due_le(nf, sc, cfg) ==
  nf % SampleEvery = 0 /\ sc <= cfg.max_stop_num /\ cfg.save_data

\* `self.num_frames % 5 == 0 and self.stop_counter < max_stop_num and save_data`
sample_due(nf, sc, cfg) ==
  nf % SampleEvery = 0 /\ sc < cfg.max_stop_num /\ cfg.save_data

\* the three appends of one sample
append_sample(bufs, rgb, sem, tel) ==
  [rgbs |-> Append(bufs.rgbs, FirstThree(rgb)),
   sems |-> Append(bufs.sems, ChannelTwo(sem)),
   info |-> Append(bufs.info, tel)]

\* mutant: flush as soon as the batch size is reached
flush_due_ge(bufs, cfg) == Len(bufs.rgbs) >= cfg.num_per_flush

\* mutant: one item more is let through before the flush
flush_due_late(bufs, cfg) == Len(bufs.rgbs) > cfg.num_per_flush + 1

\* `if len(self.rgbs) > self.config.num_per_flush`
flush_due(bufs, cfg) == Len(bufs.rgbs) > cfg.num_per_flush

\* mutant: recovery starts when the counter reaches counter_destory
recovery_due_ge(sc, cfg) == sc >= cfg.counter_destory /\ cfg.force_destory_actor

\* `self.stop_counter > counter_destory and force_destory_actor`
recovery_due(sc, cfg) == sc > cfg.counter_destory /\ cfg.force_destory_actor

\* ---------------------------------------------------- force_destory_actor
\* mutant: `if walker` in place of `elif walker`
force_destory_both(sc, world, obs, light, walker) ==
  LET hit == {obs, walker} \ {None}
  IN [stop_counter |-> IF hit = {} THEN sc ELSE 0, alive |-> world \ hit,
      destroyed |-> hit]

\* mutant: the pedestrian is tested before the obstacle
force_destory_walker_first(sc, world, obs, light, walker) ==
  IF walker # None
    THEN [stop_counter |-> 0, alive |-> world \ {walker}, destroyed |-> {walker}]
  ELSE IF obs # None
    THEN [stop_counter |-> 0, alive |-> world \ {obs}, destroyed |-> {obs}]
  ELSE [stop_counter |-> sc, alive |-> world, destroyed |-> {}]

\* mutant: the pedestrian branch does not reset the stop counter
force_destory_no_reset(sc, world, obs, light, walker) ==
  IF obs # None
    THEN [stop_counter |-> 0, alive |-> world \ {obs}, destroyed |-> {obs}]
  ELSE IF walker # None
    THEN [stop_counter |-> sc, alive |-> world \ {walker}, destroyed |-> {walker}]
  ELSE [stop_counter |-> sc, alive |-> world, destroyed |-> {}]

\* mutant: the commented-out branch of lines 114-118, a red light is forced
\* green and the stop counter reset
force_destory_light(sc, world, obs, light, walker) ==
  IF obs # None
    THEN [stop_counter |-> 0, alive |-> world \ {obs}, destroyed |-> {obs}]
  ELSE IF walker # None
    THEN [stop_counter |-> 0, alive |-> world \ {walker}, destroyed |-> {walker}]
  ELSE IF light # None
    THEN [stop_counter |-> 0, alive |-> world, destroyed |-> {}]
  ELSE [stop_counter |-> sc, alive |-> world, destroyed |-> {}]

\* result: the stop counter, the world's actors, the actors destroyed
force_destory_actor(sc, world, obs, light, walker) ==
  IF obs # None
    THEN [stop_counter |-> 0, alive |-> world \ {obs}, destroyed |-> {obs}]
  ELSE IF walker # None
    THEN [stop_counter |-> 0, alive |-> world \ {walker}, destroyed |-> {walker}]
  ELSE [stop_counter |-> sc, alive |-> world, destroyed |-> {}]

\* ------------------------------------------------------------- flush_data
\* folder_name + time_now: 'rid_RR_MM_DD_hh_mm_ss', as its numeric fields
store_name(cfg, t) ==
  <<ZeroPad(FieldWidth, cfg.route_id), ZeroPad(FieldWidth, t.month),
    ZeroPad(FieldWidth, t.day), ZeroPad(FieldWidth, t.hour),
    ZeroPad(FieldWidth, t.minute), ZeroPad(FieldWidth, t.second)>>

\* 'len', f'info_{i:05d}', f'rgbs_{i:05d}', f'sems_{i:05d}'
LenKey == [name |-> "len", idx |-> <<>>]
IndexKey(name, i) == [name |-> name, idx |-> ZeroPad(IndexWidth, i)]

\* the txn.put calls of lines 159-173 for a given db_length, in order
put_list(bufs, db_length) ==
  LET rec(j) ==
        LET i == (j - 2) \div 3
            k == (j - 2) % 3
        IN IF k = 0
             THEN [key |-> IndexKey("info", i), val |-> AsFloat32(bufs.info[i + 1])]
           ELSE IF k = 1
             THEN [key |-> IndexKey("rgbs", i), val |-> AsUint8(bufs.rgbs[i + 1])]
           ELSE [key |-> IndexKey("sems", i), val |-> AsUint8(bufs.sems[i + 1])]
  IN [j \in 1..(1 + 3 * db_length) |->
        IF j = 1 THEN [key |-> LenKey, val |-> Digits(db_length)] ELSE rec(j)]

\* mutant: the loop stops one item early
flush_puts_short(bufs) ==
  put_list(bufs, IF bufs.info = <<>> THEN 0 ELSE Len(bufs.info) - 1)

\* `db_length = len(self.info)` and the puts of one flush
flush_puts(bufs) == put_list(bufs, Len(bufs.info))

\* txn.put: a key of the store holds one value, the last one put
Put(store, dir, p) ==
  {r \in store : ~(r.dir = dir /\ r.key = p.key)}
    \cup {[dir |-> dir, key |-> p.key, val |-> p.val]}

RECURSIVE ApplyPuts(_, _, _)
ApplyPuts(store, dir, puts) ==
  IF puts = <<>> THEN store
  ELSE ApplyPuts(Put(store, dir, Head(puts)), dir, Tail(puts))

\* mutant: self.info is not cleared
clear_two_buffers(bufs) == [rgbs |-> <<>>, sems |-> <<>>, info |-> bufs.info]

\* mutant: the buffers are not cleared
keep_buffers(bufs) == bufs

\* the buffers after `self.rgbs.clear(); self.sems.clear(); self.info.clear()`
clear_buffers(bufs) == [rgbs |-> <<>>, sems |-> <<>>, info |-> <<>>]

\* result: the stores, the buffers, and the flush's log entry
flush_data(bufs, store, cfg, t) ==
  LET dir == store_name(cfg, t)
      puts == flush_puts(bufs)
  IN [stores |-> ApplyPuts(store, dir, puts),
      bufs |-> clear_buffers(bufs),
      entry |-> [dir |-> dir, buffered |-> Len(bufs.rgbs), puts |-> puts,
                 overwrote |-> {r \in store : r.dir = dir
                                  /\ \E j \in DOMAIN puts : puts[j].key = r.key}]]

\* ------------------------------------------------------------------ clock
\* one second later (the day is not left within the bounds)
NextSecond(t) ==
  LET s == t.hour * 3600 + t.minute * 60 + t.second + 1
  IN [month |-> t.month, day |-> t.day + (s \div 86400),
      hour |-> (s \div 3600) % 24, minute |-> (s \div 60) % 60,
      second |-> s % 60]

NoCall ==
  [op |-> "none", first |-> FALSE, spd |-> 0, obs |-> None, light |-> None,
   walker |-> None, control |-> CoastControl, sampled |-> FALSE,
   flushes |-> 0, recovery |-> FALSE, destroyed |-> {}, mid_counter |-> 0,
   pre_len |-> 0, returned |-> FALSE]

Bufs == [rgbs |-> rgbs, sems |-> sems, info |-> info]

Init ==
  /\ setup_state = "new"
  /\ agent = None
  /\ num_frames = 0
  /\ stop_counter = 0
  /\ config = NoConfig
  /\ rgbs = <<>> /\ sems = <<>> /\ info = <<>>
  /\ alive = Vehicles \cup Walkers \cup Lights
  /\ now = StartTime
  /\ ticks = 0
  /\ stores = {}
  /\ fault = FALSE
  /\ torn = FALSE
  /\ calls = 0
  /\ appended = 0
  /\ flushLog = <<>>
  /\ last = NoCall

\* setup(config): parse_ok is whether yaml.safe_load succeeds
setup(parse_ok, cfg) ==
  /\ setup_state = "new"
  /\ agent' = None
  /\ num_frames' = 0
  /\ stop_counter' = 0
  /\ IF parse_ok
       THEN /\ config' = [cfg EXCEPT !.debug_print =
                            IF cfg.save_data THEN FALSE ELSE cfg.debug_print]
            /\ setup_state' = "ok"
       ELSE /\ config' = NoConfig
            /\ setup_state' = "aborted"
  /\ rgbs' = <<>> /\ sems' = <<>> /\ info' = <<>>
  /\ last' = [NoCall EXCEPT !.op = "setup", !.returned = TRUE]
  /\ UNCHANGED <<alive, now, ticks, stores, fault, torn, calls, appended, flushLog>>

\* the wall clock advances by one second
Tick ==
  /\ ticks < MaxTicks
  /\ ~torn /\ ~fault
  /\ now' = NextSecond(now)
  /\ ticks' = ticks + 1
  /\ UNCHANGED <<setup_state, agent, num_frames, stop_counter, config, rgbs,
                 sems, info, alive, stores, fault, torn, calls, appended,
                 flushLog, last>>

\* mutant: the planner is built but not stored in self._agent
init_set_routes_none(state) == None

\* mutant: the planner is built without reading self.config
init_set_routes_any(state) == "BasicAgent"

\* init_set_routes: reads self.config, which an aborted setup never created
init_set_routes(state) == IF state = "ok" THEN "BasicAgent" ELSE None

\* mutant: the counter is incremented before the early return
next_num_frames_always(nf, first) == nf + 1

\* the frame counter after a run_step call (first: the planner-initialising call)
next_num_frames(nf, first) == IF first THEN nf ELSE nf + 1

\* run_step(input_data, timestamp): spd is the speedometer reading; obs,
\* light, walker are what the planner reports; junction is the map's answer
run_step(spd, obs, light, walker, junction) ==
  /\ setup_state # "new" /\ ~torn /\ ~fault
  /\ calls < MaxSteps
  /\ calls' = calls + 1
  /\ IF agent = None
       THEN \* lines 68-70
            /\ agent' = init_set_routes(setup_state)
            /\ fault' = (agent' = None)
            /\ num_frames' = next_num_frames(num_frames, TRUE)
            /\ last' = [NoCall EXCEPT !.op = "run_step", !.first = TRUE,
                          !.spd = spd,
                          !.control = IF fault' THEN NoCall.control
                                                ELSE BrakeControl,
                          !.returned = ~fault',
                          !.mid_counter = stop_counter,
                          !.pre_len = Len(rgbs)]
            /\ UNCHANGED <<stop_counter, rgbs, sems, info, alive, stores,
                           appended, flushLog>>
       ELSE \* lines 72-102
            LET sc1 == update_stop_counter(stop_counter, spd)
                sample == sample_due(num_frames, sc1, config)
                tel == <<Velocity(spd), junction, config.weather_change>>
                b1 == IF sample
                        THEN append_sample(Bufs, Frame(calls), Frame(calls), tel)
                        ELSE Bufs
                flush == sample /\ flush_due(b1, config)
                fl == flush_data(b1, stores, config, now)
                b2 == IF flush THEN fl.bufs ELSE b1
                rec == recovery_due(sc1, config)
                fd == force_destory_actor(sc1, alive, obs, light, walker)
            IN /\ rgbs' = b2.rgbs /\ sems' = b2.sems /\ info' = b2.info
               /\ stores' = IF flush THEN fl.stores ELSE stores
               /\ flushLog' = IF flush THEN Append(flushLog, fl.entry) ELSE flushLog
               /\ appended' = IF sample THEN appended + 1 ELSE appended
               /\ num_frames' = next_num_frames(num_frames, FALSE)
               /\ stop_counter' = IF rec THEN fd.stop_counter ELSE sc1
               /\ alive' = IF rec THEN fd.alive ELSE alive
               /\ last' = [op |-> "run_step", first |-> FALSE, spd |-> spd,
                           obs |-> obs, light |-> light, walker |-> walker,
                           control |-> planner_control(obs, light, walker),
                           sampled |-> sample,
                           flushes |-> IF flush THEN 1 ELSE 0,
                           recovery |-> rec,
                           destroyed |-> IF rec THEN fd.destroyed ELSE {},
                           mid_counter |-> sc1, pre_len |-> Len(rgbs),
                           returned |-> TRUE]
               /\ UNCHANGED <<agent, fault>>
  /\ UNCHANGED <<setup_state, config, now, ticks, torn>>

\* mutant: a single buffered item is not worth a flush
nothing_buffered_le(bufs) == Len(bufs.rgbs) <= 1

\* `if len(self.rgbs) == 0: return`
nothing_buffered(bufs) == Len(bufs.rgbs) = 0

\* destroy(): the harness ends the episode
destroy ==
  /\ setup_state # "new" /\ ~torn /\ ~fault
  /\ torn' = TRUE
  /\ IF setup_state = "aborted"
       THEN \* self.rgbs was never created
            /\ fault' = TRUE
            /\ last' = [NoCall EXCEPT !.op = "destroy"]
            /\ UNCHANGED <<rgbs, sems, info, stores, flushLog>>
       ELSE LET flush == ~nothing_buffered(Bufs)
                fl == flush_data(Bufs, stores, config, now)
                b2 == IF flush THEN fl.bufs ELSE Bufs
            IN /\ rgbs' = b2.rgbs /\ sems' = b2.sems /\ info' = b2.info
               /\ stores' = IF flush THEN fl.stores ELSE stores
               /\ flushLog' = IF flush THEN Append(flushLog, fl.entry) ELSE flushLog
               /\ last' = [NoCall EXCEPT !.op = "destroy",
                             !.flushes = IF flush THEN 1 ELSE 0,
                             !.mid_counter = stop_counter,
                             !.pre_len = Len(rgbs), !.returned = TRUE]
               /\ UNCHANGED fault
  /\ UNCHANGED <<setup_state, agent, num_frames, stop_counter, config, alive,
                 now, ticks, calls, appended>>

\* what the planner can report: actors the world still holds, or nothing
Reported(kind) == (alive \cap kind) \cup {None}

Next ==
  \/ \E parse_ok \in BOOLEAN, cfg \in Configs : setup(parse_ok, cfg)
  \/ \E spd \in Speeds, obs \in Reported(Vehicles),
        light \in Reported(Lights), walker \in Reported(Walkers),
        junction \in BOOLEAN :
       run_step(spd, obs, light, walker, junction)
  \/ destroy
  \/ Tick

Spec == Init /\ [][Next]_vars

\* ================================================================ claims
SetupDone == setup_state = "ok"
StepDone == last.op = "run_step"
Drove == StepDone /\ ~last.first

\* C1: after a completed setup, the first run_step call returns the braking
\* default (steer 0, throttle 0, brake 1) whatever the speedometer reads, and
\* the planner exists when that call returns.
C1_FirstStepBrakes ==
  (SetupDone /\ calls = 1 /\ StepDone) =>
    /\ last.control = [steer |-> 0, throttle |-> 0, brake |-> 1]
    /\ agent # None
    /\ ~fault

C1_Witness ==
  SetupDone /\ calls = 1 /\ StepDone /\ last.spd >= SpeedThreshold /\ agent # None

\* C2 (as claimed): on every run_step call the stop counter becomes its old
\* value plus 1 when the speed reading is below 0.5, and 0 otherwise.
C2_EveryStepCounts ==
  [][(SetupDone /\ calls' = calls + 1) =>
       stop_counter' = IF last'.spd < 5 THEN stop_counter + 1 ELSE 0]_vars

\* C2 (amended): the first run_step call leaves the stop counter alone; on
\* every later call the counter becomes its old value plus 1 when the speed
\* reading is below 0.5 and 0 otherwise, unless actor recovery destroys an
\* actor in that call, which leaves it 0.
C2_StopCounterStep ==
  [][(SetupDone /\ calls' = calls + 1) =>
       IF agent = None THEN stop_counter' = stop_counter
       ELSE IF alive' # alive THEN stop_counter' = 0
       ELSE stop_counter' = IF last'.spd < 5 THEN stop_counter + 1 ELSE 0]_vars

C2_Witness ==
  SetupDone /\ Drove /\ last.spd < 5 /\ stop_counter >= 2 /\ last.destroyed = {}

\* C3: after a completed setup the three frame buffers have equal length in
\* every state, and a hook call that flushed leaves all three empty.
C3_BuffersAligned ==
  SetupDone =>
    /\ Len(rgbs) = Len(sems)
    /\ Len(sems) = Len(info)
    /\ (last.flushes > 0 => (rgbs = <<>> /\ sems = <<>> /\ info = <<>>))

C3_Witness ==
  SetupDone /\ Drove /\ last.flushes = 1 /\ last.pre_len >= 2 /\ rgbs = <<>>

\* the keys a flush of L items must write besides 'len'
DataKeys(L) ==
  {[name |-> n, idx |-> ZeroPad(5, i)] : n \in {"info", "rgbs", "sems"}, i \in 0..(L - 1)}

\* C4: a flush called with L buffered items puts exactly one 'len' record whose
\* value is L and exactly 3*L data records, info_i, rgbs_i and sems_i for
\* every i in 0..L-1, and leaves the three buffers empty.
C4_FlushWrites ==
  /\ \A n \in DOMAIN flushLog :
       LET e == flushLog[n]
           L == e.buffered
           data == {j \in DOMAIN e.puts : e.puts[j].key.name # "len"}
       IN /\ Len(e.puts) = 1 + 3 * L
          /\ Cardinality({j \in DOMAIN e.puts : e.puts[j].key.name = "len"}) = 1
          /\ \A j \in DOMAIN e.puts :
               e.puts[j].key.name = "len" => e.puts[j].val = Digits(L)
          /\ Cardinality(data) = 3 * L
          /\ {e.puts[j].key : j \in data} = DataKeys(L)
          /\ Cardinality(DataKeys(L)) = 3 * L
  /\ (last.flushes > 0 => (rgbs = <<>> /\ sems = <<>> /\ info = <<>>))

C4_Witness ==
  /\ last.flushes = 1
  /\ flushLog # <<>>
  /\ flushLog[Len(flushLog)].buffered = 3
  /\ Len(flushLog[Len(flushLog)].puts) = 10

\* C5: a call of force_destory_actor destroys at most one actor, leaves the
\* stop counter 0 when it destroys one, and with neither an obstacle nor a
\* pedestrian reference (a traffic light only, or nothing) destroys nothing
\* and leaves the stop counter as the speed update set it.
C5_RecoveryEffect ==
  [][(calls' = calls + 1 /\ last'.recovery) =>
       LET gone == alive \ alive'
       IN /\ Cardinality(gone) <= 1
          /\ alive' \subseteq alive
          /\ (gone # {} => stop_counter' = 0)
          /\ ((last'.obs = None /\ last'.walker = None) =>
                (gone = {} /\ stop_counter' =
                   IF last'.spd < 5 THEN stop_counter + 1 ELSE 0))]_vars

C5_Witness ==
  /\ Drove /\ last.recovery /\ last.obs # None /\ last.walker # None
  /\ last.light # None /\ stop_counter = 0 /\ Cardinality(last.destroyed) = 1

\* the scenario of C6: num_per_flush=2, save_data=true, max_stop_num=10
Scenario ==
  SetupDone /\ config.num_per_flush = 2 /\ config.save_data /\ config.max_stop_num = 10

\* C6 (as claimed): in the scenario, once three samples have been appended
\* one flush has happened, it wrote the first two samples, and exactly one
\* item is buffered.
C6_FlushBeforeThird ==
  (Scenario /\ ~torn /\ appended = 3) =>
    (Len(rgbs) = 1 /\ Len(flushLog) = 1 /\ flushLog[1].buffered = 2)

\* C6 (amended): in the scenario nothing is flushed while at most two samples
\* have been appended (both stay buffered); the automatic flush happens in
\* the step that appends the third sample (frame 10), after that append: it
\* writes all three samples and leaves no item buffered.
C6_FlushAfterThird ==
  (Scenario /\ ~torn) =>
    /\ (appended <= 2 => (flushLog = <<>> /\ Len(rgbs) = appended))
    /\ (appended = 3 =>
          /\ num_frames >= 11
          /\ Len(flushLog) = 1
          /\ flushLog[1].buffered = 3
          /\ Len(rgbs) = 0)

C6_Witness ==
  /\ Scenario /\ ~torn /\ Drove /\ appended = 3 /\ num_frames = 11
  /\ last.flushes = 1 /\ last.pre_len = 2 /\ rgbs = <<>>

\* C7 (as claimed): after n run_step calls the frame counter is n.
C7_FramesEqualCalls == SetupDone => num_frames = calls

\* C7 (amended): the frame counter is left at 0 by the first,
\* planner-initialising run_step call and increases by exactly 1 on every
\* later call; no operation decreases or resets it, so after n >= 1 calls it
\* is n - 1.
C7_FramesCount ==
  SetupDone => num_frames = (IF calls = 0 THEN 0 ELSE calls - 1)

C7_Witness == SetupDone /\ calls = 4 /\ num_frames = 3 /\ torn

\* C8: destroy performs exactly one flush when the buffer is non-empty and
\* none (no store is written) when it is empty; either way the three buffers
\* are empty afterwards.
C8_TeardownFlush ==
  [][(SetupDone /\ ~torn /\ torn') =>
       /\ IF Len(rgbs) > 0
            THEN /\ Len(flushLog') = Len(flushLog) + 1
                 /\ flushLog'[Len(flushLog')].buffered = Len(rgbs)
                 /\ SubSeq(flushLog', 1, Len(flushLog)) = flushLog
            ELSE flushLog' = flushLog /\ stores' = stores
       /\ rgbs' = <<>> /\ sems' = <<>> /\ info' = <<>>]_vars

C8_Witness ==
  /\ SetupDone /\ torn /\ last.op = "destroy" /\ last.flushes = 1
  /\ last.pre_len = 1 /\ Len(flushLog) = 2 /\ rgbs = <<>>

\* C9: no two flushes of the agent write to the same store directory, and no
\* flush overwrites a record an earlier flush wrote.
C9_OwnStore ==
  /\ \A i, j \in DOMAIN flushLog : i # j => flushLog[i].dir # flushLog[j].dir
  /\ \A i \in DOMAIN flushLog : flushLog[i].overwrote = {}

\* a sample reached the frame buffer in this step (it may have been flushed
\* in the same step)
Grew ==
  \/ Len(rgbs') = Len(rgbs) + 1
  \/ /\ Len(flushLog') = Len(flushLog) + 1
     /\ flushLog'[Len(flushLog')].buffered = Len(rgbs) + 1

\* C10: on a run_step call other than the first, a sample is appended if and
\* only if the frame counter before its increment is a multiple of 5, the
\* stop counter as updated by this call's speed reading is below
\* max_stop_num, and save_data is set; with save_data unset the buffers stay
\* empty and nothing is ever flushed.
C10_SamplingRule ==
  [][/\ (SetupDone /\ calls' = calls + 1 /\ agent # None) =>
          (Grew <=>
             /\ num_frames % 5 = 0
             /\ (IF last'.spd < 5 THEN stop_counter + 1 ELSE 0) < config.max_stop_num
             /\ config.save_data)
     /\ (SetupDone /\ calls' = calls + 1 /\ agent = None) => ~Grew
     /\ (SetupDone /\ ~config.save_data) =>
          (rgbs' = <<>> /\ sems' = <<>> /\ info' = <<>> /\ flushLog' = <<>>
             /\ stores' = {})]_vars

C10_Witness ==
  /\ SetupDone /\ Drove /\ num_frames = 6 /\ last.sampled /\ last.spd < 5
  /\ stop_counter = config.max_stop_num - 1 /\ appended = 2

\* C11: on a run_step call actor recovery is invoked if and only if the stop
\* counter as updated by this call's speed reading exceeds counter_destory
\* and force_destory_actor is set (never on the first call); a call without
\* recovery destroys no actor, so with force_destory_actor unset the agent
\* never destroys one.
C11_RecoveryRule ==
  [][/\ (SetupDone /\ calls' = calls + 1) =>
          /\ last'.recovery <=>
               /\ agent # None
               /\ (IF last'.spd < 5 THEN stop_counter + 1 ELSE 0)
                    > config.counter_destory
               /\ config.force_destory_actor
          /\ (~last'.recovery => alive' = alive)
     /\ (SetupDone /\ ~config.force_destory_actor) => alive' = alive]_vars

C11_Witness ==
  /\ SetupDone /\ Drove /\ last.recovery /\ config.force_destory_actor
  /\ last.mid_counter = config.counter_destory + 1 /\ last.destroyed # {}

\* C12: recovery with an obstacle reference destroys the obstacle and nothing
\* else, whatever else is reported; it destroys the pedestrian only when no
\* obstacle is reported.
C12_Priority ==
  (SetupDone /\ Drove /\ last.recovery) =>
    /\ (last.obs # None =>
          /\ last.obs \notin alive
          /\ last.destroyed = {last.obs}
          /\ (last.walker # None => last.walker \in alive))
    /\ ((last.obs = None /\ last.walker # None) =>
          (last.walker \notin alive /\ last.destroyed = {last.walker}))
    /\ (last.light # None => last.light \in alive)

C12_Witness ==
  /\ SetupDone /\ Drove /\ last.recovery /\ last.obs # None /\ last.walker # None
  /\ last.light = None /\ last.obs \notin alive /\ last.walker \in alive

\* C13: after a completed setup the agent is Uninitialized (no planner) exactly
\* until the first run_step call, which creates the planner; the planner is
\* never dropped or created again, and nothing done while Uninitialized
\* changes the stop counter, the frame buffers, the stores or the actors.
C13_Lifecycle ==
  [][/\ agent' \in {None, "BasicAgent"}
     /\ (agent # None => agent' = agent)
     /\ (SetupDone /\ agent = None /\ agent' # None) => (calls = 0 /\ calls' = 1)
     /\ (SetupDone /\ calls' = calls + 1) =>
          /\ (agent = None <=> calls = 0)
          /\ (last'.first <=> calls = 0)
          /\ agent' # None
     /\ (SetupDone /\ agent = None) =>
          UNCHANGED <<stop_counter, rgbs, sems, info, alive, stores, flushLog>>]_vars

C13_Witness ==
  /\ SetupDone /\ agent = "BasicAgent" /\ calls = 3 /\ Drove
  /\ stop_counter = 2 /\ ~fault

\* C14: when the configuration cannot be parsed, setup returns with the two
\* counters at 0 and the planner absent but without a configuration or frame
\* buffers; after that no run_step call returns a control command: the first
\* run_step call and destroy both end in a fault, and nothing is stored.
C14_AbortedSetup ==
  setup_state = "aborted" =>
    /\ num_frames = 0 /\ stop_counter = 0 /\ agent = None
    /\ config = NoConfig
    /\ rgbs = <<>> /\ sems = <<>> /\ info = <<>>
    /\ stores = {} /\ flushLog = <<>>
    /\ (last.op = "setup" => (last.returned /\ ~fault))
    /\ (last.op \in {"run_step", "destroy"} => (fault /\ ~last.returned))
    /\ (last.op = "run_step" => last.control # [steer |-> 0, throttle |-> 0, brake |-> 1])
    /\ calls <= 1

C14_Witness ==
  setup_state = "aborted" /\ StepDone /\ calls = 1 /\ fault /\ ~last.returned

\* the flush was made by destroy (it is then the last one)
TeardownFlush(i) ==
  torn /\ last.op = "destroy" /\ last.flushes = 1 /\ i = Len(flushLog)

\* C15: with num_per_flush >= 0, after every run_step call the frame buffer
\* holds at most num_per_flush items, and every flush made inside run_step
\* writes exactly num_per_flush + 1 items: the flush follows the append that
\* makes the length exceed num_per_flush.
C15_BatchSize ==
  (SetupDone /\ config.num_per_flush >= 0) =>
    /\ Len(rgbs) <= config.num_per_flush
    /\ \A i \in DOMAIN flushLog :
         ~TeardownFlush(i) =>
           /\ flushLog[i].buffered = config.num_per_flush + 1
           /\ Len(flushLog[i].puts) = 1 + 3 * (config.num_per_flush + 1)
    /\ ((Drove /\ last.flushes = 1) =>
          (last.sampled /\ last.pre_len = config.num_per_flush))

C15_Witness ==
  /\ SetupDone /\ Drove /\ last.flushes = 1 /\ config.num_per_flush = 1
  /\ last.pre_len = 1 /\ flushLog[Len(flushLog)].buffered = 2 /\ rgbs = <<>>

\* the values a flush put under the keys `name`_i, in index order
PutValues(e, name) ==
  LET js == {j \in DOMAIN e.puts : e.puts[j].key.name = name}
  IN [i \in 1..Cardinality(js) |->
        e.puts[CHOOSE j \in js : e.puts[j].key.idx = ZeroPad(5, i - 1)].val]

RECURSIVE WrittenUpTo(_, _)
\* the values written under `name` by the first n flushes, in order
WrittenUpTo(n, name) ==
  IF n = 0 THEN <<>>
  ELSE WrittenUpTo(n - 1, name) \o PutValues(flushLog[n], name)

\* every sample so far: those written, then those still buffered
AllRgbs == WrittenUpTo(Len(flushLog), "rgbs") \o rgbs
AllSems == WrittenUpTo(Len(flushLog), "sems") \o sems

\* C16: the samples written by all flushes so far, followed by the buffered
\* ones, are exactly the samples appended so far, each once and in append
\* order (so appended = written + buffered); after destroy nothing is left
\* buffered.
C16_NoSampleLost ==
  SetupDone =>
    /\ Len(AllRgbs) = appended
    /\ Len(AllSems) = appended
    /\ Len(WrittenUpTo(Len(flushLog), "info")) + Len(info) = appended
    /\ \A i \in 1..Len(AllRgbs) :
         /\ (AllRgbs[i][1] - 1) % 5 = 0
         /\ AllRgbs[i][1] <= calls
         /\ AllSems[i][1] = AllRgbs[i][3]
         /\ (i > 1 => AllRgbs[i - 1][1] < AllRgbs[i][1])
    /\ (torn => (rgbs = <<>> /\ sems = <<>> /\ info = <<>>))

C16_Witness ==
  /\ SetupDone /\ torn /\ appended = 3 /\ Len(flushLog) = 2
  /\ flushLog[1].buffered = 2 /\ flushLog[2].buffered = 1 /\ rgbs = <<>>

\* C17: with force_destory_actor set, after every run_step call in which the
\* planner reported an obstacle or a pedestrian the stop counter is at most
\* counter_destory.
C17_StallResolved ==
  (SetupDone /\ Drove /\ config.force_destory_actor
     /\ (last.obs # None \/ last.walker # None)) =>
    /\ stop_counter <= config.counter_destory
    /\ (last.mid_counter > config.counter_destory => stop_counter = 0)

C17_Witness ==
  /\ SetupDone /\ Drove /\ config.force_destory_actor /\ last.obs = None
  /\ last.walker # None /\ last.mid_counter = config.counter_destory + 1
  /\ stop_counter = 0 /\ last.walker \notin alive

\* a run_step call after the first, with a speed reading below 0.5 and
\* neither an obstacle nor a pedestrian reported
StalledStep ==
  /\ SetupDone /\ calls' = calls + 1 /\ agent # None
  /\ last'.spd < 5 /\ last'.obs = None /\ last'.walker = None

\* C18 (as claimed): on every stalled step the stop counter grows by 1,
\* recovery is invoked as soon as the counter exceeds counter_destory and
\* destroys nothing, and no sample is appended once the counter has reached
\* max_stop_num.
C18_StallAlwaysWarns ==
  [][StalledStep =>
       /\ stop_counter' = stop_counter + 1
       /\ (last'.recovery <=> stop_counter + 1 > config.counter_destory)
       /\ alive' = alive
       /\ (stop_counter + 1 >= config.max_stop_num => ~Grew)]_vars

\* C18 (amended): on every stalled step the stop counter grows by 1 (nothing
\* caps or resets it); when force_destory_actor is set, recovery is invoked on
\* every such step on which the counter exceeds counter_destory, and only
\* warns (no actor is destroyed); with force_destory_actor unset recovery is
\* never invoked; no sample is appended once the counter has reached
\* max_stop_num.
C18_StallGrows ==
  [][StalledStep =>
       /\ stop_counter' = stop_counter + 1
       /\ (last'.recovery <=>
             (stop_counter + 1 > config.counter_destory
                /\ config.force_destory_actor))
       /\ alive' = alive
       /\ (stop_counter + 1 >= config.max_stop_num => ~Grew)]_vars

C18_Witness ==
  /\ SetupDone /\ Drove /\ last.spd < 5 /\ last.obs = None /\ last.walker = None
  /\ last.light # None /\ last.recovery /\ last.destroyed = {}
  /\ stop_counter > config.counter_destory + 1
  /\ stop_counter > config.max_stop_num
  /\ num_frames % 5 = 1 /\ num_frames > 1 /\ ~last.sampled

====
